---- MODULE Spec2Model ----
(***************************************************************************)
(* Model of src/main.py: the LINE webhook handler handle_message and the   *)
(* module-level session table user_sessions.                               *)
(*                                                                         *)
(* Every inbound text message is handled by one invocation of              *)
(* handle_message.  The WSGI server may run several invocations at once    *)
(* (one per request thread); they share user_sessions without any lock.    *)
(* An invocation is a handler slot h with its local variables in frame[h]; *)
(* a step of the model is one statement (or one blocking call) of the      *)
(* handler that reads or writes user_sessions.                             *)
(*                                                                         *)
(* Spec    : any interleaving of the handlers in flight.                   *)
(* SpecSeq : messages are handled one after another.                       *)
(* SpecTwo : two users; one handler each, interleaved in any way.          *)
(* SpecLive: Spec with every handler scheduled again and again; the        *)
(*           backend need not answer.                                      *)
(*                                                                         *)
(* Init and InitSeq range over the empty table (the state right after      *)
(* construction) and the tables the program is in after n successful       *)
(* exchanges of one user on the first day (ReplaySession).                 *)
(***************************************************************************)
EXTENDS Integers, Sequences, FiniteSets, TLC

\* ---------------------------------------------------------------- bounds
\* messages received in one behaviour
MaxMsgs == 2
\* calendar days 1..MaxDay
MaxDay == 2

Handlers == {1, 2}
Users == {"U1", "U2"}
\* the users whose messages arrive in Spec and SpecSeq
Senders == {"U1"}
\* the user whose earlier exchanges Init replays
WarmUser == "U1"
\* numbers of earlier successful exchanges Init draws from
WarmCounts == {19, 20}
\* the same for InitSeq
WarmCountsSeq == {1, 6, 7, 19, 20}
\* numbers of earlier exchanges InitTwo draws from, for either user
WarmCountsTwo == {1, 20}
\* texts an inbound message may carry
Texts == {"question", "reset"}
ResetCommand == "reset"
\* display names the profile lookup may return
ProfileNames == {"Hanako"}

\* ------------------------------------------------------ program constants
MAX_GEMINI_REQUESTS_PER_DAY == 20
MAX_CONTEXT_TURNS == 6

SHIP_SUPPORT_SYSTEM_PROMPT == "SHIP_SUPPORT_SYSTEM_PROMPT"
PromptAcknowledgment == "acknowledged, answering as the support bot"
GEMINI_LIMIT_MESSAGE == "daily limit reached, please come back tomorrow"
DefaultResponseText == "cannot process the message now, try again later"
UnexpectedFormatText == "the response from Gemini had an unexpected format"
GeminiErrorText == "error while talking to Gemini, try again later"
DefaultDisplayName == "SHIP staff"

PersonalizedInitialMessage(user_display_name) ==
    user_display_name \o "-san, thank you for your work; feel free to consult the support bot"

\* -------------------------------------------------------------- sessions
\* NewSession with the first message of the day counted as a request
NewSessionCounted(current_date) ==
    [history |-> <<>>,
     request_count |-> 1,
     last_request_date |-> current_date,
     display_name |-> DefaultDisplayName]

NewSession(current_date) ==
    [history |-> <<>>,
     request_count |-> 0,
     last_request_date |-> current_date,
     display_name |-> DefaultDisplayName]

\* NeedsReset without the date test
NeedsResetAbsentOnly(sessions, uid, current_date) ==
    uid \notin DOMAIN sessions

\* NeedsReset with the quota test winning over the date test
NeedsResetBelowQuota(sessions, uid, current_date) ==
    \/ uid \notin DOMAIN sessions
    \/ /\ sessions[uid].last_request_date # current_date
       /\ sessions[uid].request_count < MAX_GEMINI_REQUESTS_PER_DAY

\* line 215: no session for the user, or one last used on another date
NeedsReset(sessions, uid, current_date) ==
    \/ uid \notin DOMAIN sessions
    \/ sessions[uid].last_request_date # current_date

\* PutSession that gives every user of the table the new session
PutSessionAll(sessions, uid, s) ==
    [u \in DOMAIN sessions \cup {uid} |-> s]

\* line 218: user_sessions[user_id] = {...}
PutSession(sessions, uid, s) ==
    [u \in DOMAIN sessions \cup {uid} |-> IF u = uid THEN s ELSE sessions[u]]

\* QuotaExceeded with > for >=
QuotaExceededStrict(request_count) ==
    request_count > MAX_GEMINI_REQUESTS_PER_DAY

\* line 269
QuotaExceeded(request_count) ==
    request_count >= MAX_GEMINI_REQUESTS_PER_DAY

\* AppendTurn that files every turn under the role user
AppendTurnAsUser(s, role, text) ==
    [s EXCEPT !.history = Append(@, <<"user", text>>)]

\* lines 327, 328: history.append([role, text])
AppendTurn(s, role, text) ==
    [s EXCEPT !.history = Append(@, <<role, text>>)]

\* StartIndex without the window
StartIndexZero(history) == 0

\* line 295
StartIndex(history) ==
    IF Len(history) - MAX_CONTEXT_TURNS * 2 > 0
    THEN Len(history) - MAX_CONTEXT_TURNS * 2
    ELSE 0

\* a Python slice seq[start:], start >= 0 counted from 0
SliceFrom(seq, start) ==
    IF start >= Len(seq) THEN <<>> ELSE SubSeq(seq, start + 1, Len(seq))

\* line 301: one history entry [role, text] as a content dict
ContentOf(turn) ==
    [role |-> turn[1], parts |-> <<turn[2]>>]

\* lines 288-291
Preamble ==
    << [role |-> "user", parts |-> <<SHIP_SUPPORT_SYSTEM_PROMPT>>],
       [role |-> "model", parts |-> <<PromptAcknowledgment>>] >>

\* lines 288-301
BuildChatHistory(history, start) ==
    LET kept == SliceFrom(history, start)
    IN  Preamble \o [i \in 1..Len(kept) |-> ContentOf(kept[i])]

\* ------------------------------------------ outcomes of the collaborators
\* gemini_model.start_chat(...).send_message(...): a response with text (maybe
\* empty), a list whose first element has text, an object without text, or an
\* exception (an API error, a timeout raised by the client)
GeminiResults ==
    { [kind |-> "text", text |-> "answer"],
      [kind |-> "text", text |-> ""],
      [kind |-> "list", text |-> "answer"],
      [kind |-> "no_text", text |-> ""],
      [kind |-> "raise", text |-> ""] }

\* the response carries text the user can read
Usable(r) == r.kind \in {"text", "list"} /\ r.text # ""

\* line_bot_api.get_profile: a profile, a response without display_name, an error
ProfileResults ==
    { [kind |-> "profile", display_name |-> n] : n \in ProfileNames }
    \cup { [kind |-> "no_name", display_name |-> ""],
           [kind |-> "raise", display_name |-> ""] }

\* ProfileDisplayName that blanks the name when the lookup gives none
ProfileDisplayNameBlank(r, kept) ==
    IF r.kind = "profile" THEN r.display_name ELSE ""

\* lines 232-242: the name the session holds after the lookup; kept is the
\* name it held before
ProfileDisplayName(r, kept) ==
    IF r.kind = "profile" THEN r.display_name ELSE kept

\* AfterReply that goes back to the reply call when the delivery failed
AfterReplyRetry(delivered) ==
    IF delivered THEN "done" ELSE "reply_final"

\* lines 263-266, 281-284, 349-353: a failed delivery is logged, and the
\* handler goes on to its return like after a delivery that succeeded
AfterReply(delivered) == "done"

\* ------------------------------------------------- earlier exchanges (Init)
WarmText(k) == IF k % 3 = 0 THEN ResetCommand ELSE "question"
WarmReply(k) == "answer " \o ToString(k)

\* lines 327-332 applied to a session: one persisted exchange
PersistExchange(s, user_message, response_text, current_date) ==
    LET a == AppendTurn(AppendTurn(s, "user", user_message), "model", response_text)
    IN  [a EXCEPT !.request_count = @ + 1, !.last_request_date = current_date]

RECURSIVE ReplaySession(_)
ReplaySession(n) ==
    IF n = 0 THEN NewSession(1)
    ELSE PersistExchange(ReplaySession(n - 1), WarmText(n), WarmReply(n), 1)

\* ----------------------------------------------------------------- state
VARIABLES
    user_sessions,   \* the dict user_sessions: user id -> session
    today,           \* what datetime.date.today() returns now
    frame,           \* per handler: its position and local variables
    trace,           \* per handler: what it has done so far (observation only)
    fulfilled,       \* per user and day: backend calls that returned usable text that day
    successes,       \* per user: such calls since the session was (re)initialized
    quota_reset_day, \* per user: the day a session at quota was reset, else 0
    received         \* messages received so far

vars == <<user_sessions, today, frame, trace, fulfilled, successes,
          quota_reset_day, received>>

Days == 1..MaxDay

IdleFrame ==
    [pc |-> "idle", user_id |-> "-", user_message |-> "-", current_date |-> 0,
     response_text |-> "-", start_index |-> 0, chat_history_for_gemini |-> <<>>,
     loaded_count |-> 0]

IdleTrace == [path |-> "none", profile |-> "none", backend |-> "none", replies |-> <<>>]

\* the empty table, and the tables n earlier exchanges of WarmUser leave
InitialTables(counts) ==
    { [u \in {} |-> NewSession(1)] }
    \cup { [u \in {WarmUser} |-> ReplaySession(n)] : n \in counts }

CountOn(sessions, u, d) ==
    IF u \in DOMAIN sessions /\ sessions[u].last_request_date = d
    THEN sessions[u].request_count ELSE 0

InitFrom(tables) ==
    /\ user_sessions \in tables
    /\ today = 1
    /\ frame = [h \in Handlers |-> IdleFrame]
    /\ trace = [h \in Handlers |-> IdleTrace]
    /\ fulfilled = [u \in Users |-> [d \in Days |-> CountOn(user_sessions, u, d)]]
    /\ successes = [u \in Users |-> CountOn(user_sessions, u, 1)]
    /\ quota_reset_day = [u \in Users |-> 0]
    /\ received = 0

Init == InitFrom(InitialTables(WarmCounts))

InitSeq == InitFrom(InitialTables(WarmCountsSeq))

\* the tables in which each user has no session yet or one left by earlier
\* exchanges of the first day
InitialTablesTwo ==
    { [u \in D |-> ReplaySession(n[u])] :
        D \in SUBSET Users, n \in [Users -> WarmCountsTwo] }

InitTwo == InitFrom(InitialTablesTwo)

\* ------------------------------------------------------------ scheduling
\* the lowest free handler slot takes the next message
FreeSlot(h) ==
    /\ frame[h].pc = "idle"
    /\ \A g \in Handlers : g < h => frame[g].pc # "idle"

\* The reply call and the return touch nothing shared: a handler that has
\* reached its reply call runs to its return before anything else is scheduled,
\* which loses no interleaving of the steps that read or write shared state.
ReplyPcs == {"reply_initial", "reply_limit", "reply_final"}

NoneReturning == \A h \in Handlers : frame[h].pc \notin ReplyPcs \cup {"done"}

AllIdle == \A h \in Handlers : frame[h].pc = "idle"

\* --------------------------------------------------------------- actions
\* the calendar date changes
AdvanceDay ==
    /\ NoneReturning
    /\ today < MaxDay
    /\ today' = today + 1
    /\ UNCHANGED <<user_sessions, frame, trace, fulfilled, successes,
                   quota_reset_day, received>>

\* lines 202-211: a message event enters handle_message
Receive(h, u, t) ==
    /\ NoneReturning
    /\ frame[h].pc = "idle"
    /\ received < MaxMsgs
    /\ received' = received + 1
    /\ frame' = [frame EXCEPT ![h] =
                   [IdleFrame EXCEPT !.pc = "check", !.user_id = u,
                                     !.user_message = t,
                                     !.response_text = DefaultResponseText,
                                     !.current_date = today]]
    /\ trace' = [trace EXCEPT ![h] = IdleTrace]
    /\ UNCHANGED <<user_sessions, today, fulfilled, successes, quota_reset_day>>

\* line 215: the test that decides between the reset flow and the rest
CheckSession(h) ==
    LET f == frame[h] IN
    /\ NoneReturning
    /\ f.pc = "check"
    /\ IF NeedsReset(user_sessions, f.user_id, f.current_date)
       THEN /\ frame' = [frame EXCEPT ![h].pc = "init", ![h].user_message = "-"]
            /\ trace' = [trace EXCEPT ![h].path = "fresh"]
            /\ quota_reset_day' =
                 IF /\ f.user_id \in DOMAIN user_sessions
                    /\ user_sessions[f.user_id].request_count >= MAX_GEMINI_REQUESTS_PER_DAY
                 THEN [quota_reset_day EXCEPT ![f.user_id] = f.current_date]
                 ELSE quota_reset_day
       ELSE /\ frame' = [frame EXCEPT ![h].pc = "quota"]
            /\ UNCHANGED <<trace, quota_reset_day>>
    /\ UNCHANGED <<user_sessions, today, fulfilled, successes, received>>

\* lines 218-223: the session is (re)initialized
InitSession(h) ==
    LET f == frame[h] IN
    /\ NoneReturning
    /\ f.pc = "init"
    /\ user_sessions' = PutSession(user_sessions, f.user_id, NewSession(f.current_date))
    /\ successes' = [successes EXCEPT ![f.user_id] = 0]
    /\ frame' = [frame EXCEPT ![h].pc = "profile", ![h].current_date = 0]
    /\ UNCHANGED <<today, trace, fulfilled, quota_reset_day, received>>

\* lines 229-252: the profile lookup returns or raises; the onboarding text
GetProfile(h, r) ==
    LET f == frame[h]
        named == [user_sessions EXCEPT
                    ![f.user_id].display_name = ProfileDisplayName(r, @)]
    IN
    /\ NoneReturning
    /\ f.pc = "profile"
    /\ user_sessions' = named
    /\ frame' = [frame EXCEPT
                   ![h].pc = "reply_initial",
                   ![h].response_text =
                       PersonalizedInitialMessage(named[f.user_id].display_name)]
    /\ trace' = [trace EXCEPT ![h].profile = r.kind]
    /\ UNCHANGED <<today, fulfilled, successes, quota_reset_day, received>>

\* a call of line_bot_api.reply_message that succeeds or raises (logged only)
SendReply(h, delivered) ==
    /\ trace' = [trace EXCEPT ![h].replies =
                   Append(@, [text |-> frame[h].response_text, delivered |-> delivered])]
    /\ frame' = [frame EXCEPT ![h] =
                   [IdleFrame EXCEPT !.pc = AfterReply(delivered),
                                     !.user_id = frame[h].user_id]]
    /\ UNCHANGED <<user_sessions, today, fulfilled, successes, quota_reset_day,
                   received>>

\* lines 254-266
ReplyInitial(h, delivered) ==
    /\ frame[h].pc = "reply_initial"
    /\ SendReply(h, delivered)

\* lines 269-271: the daily limit
CheckQuota(h) ==
    LET f == frame[h] IN
    /\ NoneReturning
    /\ f.pc = "quota"
    /\ IF QuotaExceeded(user_sessions[f.user_id].request_count)
       THEN /\ frame' = [frame EXCEPT ![h].pc = "reply_limit",
                                      ![h].response_text = GEMINI_LIMIT_MESSAGE,
                                      ![h].user_message = "-",
                                      ![h].current_date = 0]
            /\ trace' = [trace EXCEPT ![h].path = "limited"]
       ELSE /\ frame' = [frame EXCEPT ![h].pc = "start_index"]
            /\ trace' = [trace EXCEPT ![h].path = "proceed"]
    /\ UNCHANGED <<user_sessions, today, fulfilled, successes, quota_reset_day,
                   received>>

\* lines 272-284
ReplyLimit(h, delivered) ==
    /\ frame[h].pc = "reply_limit"
    /\ SendReply(h, delivered)

\* line 295
ComputeStartIndex(h) ==
    LET f == frame[h] IN
    /\ NoneReturning
    /\ f.pc = "start_index"
    /\ frame' = [frame EXCEPT
                   ![h].pc = "build",
                   ![h].start_index = StartIndex(user_sessions[f.user_id].history)]
    /\ UNCHANGED <<user_sessions, today, trace, fulfilled, successes,
                   quota_reset_day, received>>

\* lines 288-311: the context is built and the backend call is issued
BuildContext(h) ==
    LET f == frame[h] IN
    /\ NoneReturning
    /\ f.pc = "build"
    /\ frame' = [frame EXCEPT
                   ![h].pc = "gemini",
                   ![h].chat_history_for_gemini =
                       BuildChatHistory(user_sessions[f.user_id].history, f.start_index)]
    /\ trace' = [trace EXCEPT ![h].backend = "pending"]
    /\ UNCHANGED <<user_sessions, today, fulfilled, successes, quota_reset_day,
                   received>>

\* lines 316-322 and 335-337: the reply text and the next step for a result
ResponseTextFor(r) ==
    CASE r.kind = "raise" -> GeminiErrorText
      [] r.kind = "no_text" -> UnexpectedFormatText
      [] OTHER -> r.text

\* NextAfterGemini with the update of lines 327-332 run on every outcome
NextAfterGeminiAlways(r) == "append_user"

NextAfterGemini(r) ==
    IF r.kind = "raise" THEN "reply_final" ELSE "append_user"

\* the locals still read after the call: line 327 reads user_message and line
\* 332 current_date, the except branch reads neither
LiveAfterGemini(f, r) ==
    IF r.kind = "raise"
    THEN [f EXCEPT !.user_message = "-", !.current_date = 0]
    ELSE f

BackendOutcome(r) ==
    CASE r.kind = "raise" -> "raise"
      [] r.kind = "no_text" -> "no_text"
      [] r.text = "" -> "empty"
      [] OTHER -> "ok"

\* lines 310-324, 335-337: the backend call returns or raises
GeminiReturn(h, r) ==
    LET f == frame[h] IN
    /\ NoneReturning
    /\ f.pc = "gemini"
    /\ frame' = [frame EXCEPT ![h] =
                   [LiveAfterGemini(f, r) EXCEPT
                      !.pc = NextAfterGemini(r),
                      !.response_text = ResponseTextFor(r),
                      !.chat_history_for_gemini = <<>>,
                      !.start_index = 0]]
    /\ trace' = [trace EXCEPT ![h].backend = BackendOutcome(r)]
    /\ fulfilled' = IF Usable(r)
                    THEN [fulfilled EXCEPT ![f.user_id][today] = @ + 1]
                    ELSE fulfilled
    /\ successes' = IF Usable(r)
                    THEN [successes EXCEPT ![f.user_id] = @ + 1]
                    ELSE successes
    /\ UNCHANGED <<user_sessions, today, quota_reset_day, received>>

\* line 327
AppendUser(h) ==
    LET f == frame[h] IN
    /\ NoneReturning
    /\ f.pc = "append_user"
    /\ user_sessions' = [user_sessions EXCEPT
                           ![f.user_id] = AppendTurn(@, "user", f.user_message)]
    /\ frame' = [frame EXCEPT ![h].pc = "append_model", ![h].user_message = "-"]
    /\ UNCHANGED <<today, trace, fulfilled, successes, quota_reset_day, received>>

\* line 328
AppendModel(h) ==
    LET f == frame[h] IN
    /\ NoneReturning
    /\ f.pc = "append_model"
    /\ user_sessions' = [user_sessions EXCEPT
                           ![f.user_id] = AppendTurn(@, "model", f.response_text)]
    /\ frame' = [frame EXCEPT ![h].pc = "load_count"]
    /\ UNCHANGED <<today, trace, fulfilled, successes, quota_reset_day, received>>

\* line 331, first half of +=: the counter is read
LoadCount(h) ==
    LET f == frame[h] IN
    /\ NoneReturning
    /\ f.pc = "load_count"
    /\ frame' = [frame EXCEPT
                   ![h].pc = "store_count",
                   ![h].loaded_count = user_sessions[f.user_id].request_count]
    /\ UNCHANGED <<user_sessions, today, trace, fulfilled, successes,
                   quota_reset_day, received>>

\* line 331, second half of +=: the sum is stored
StoreCount(h) ==
    LET f == frame[h] IN
    /\ NoneReturning
    /\ f.pc = "store_count"
    /\ user_sessions' = [user_sessions EXCEPT
                           ![f.user_id].request_count = f.loaded_count + 1]
    /\ frame' = [frame EXCEPT ![h].pc = "set_date", ![h].loaded_count = 0]
    /\ UNCHANGED <<today, trace, fulfilled, successes, quota_reset_day, received>>

\* line 332
SetDate(h) ==
    LET f == frame[h] IN
    /\ NoneReturning
    /\ f.pc = "set_date"
    /\ user_sessions' = [user_sessions EXCEPT
                           ![f.user_id].last_request_date = f.current_date]
    /\ frame' = [frame EXCEPT ![h].pc = "reply_final", ![h].current_date = 0]
    /\ UNCHANGED <<today, trace, fulfilled, successes, quota_reset_day, received>>

\* lines 339-350
ReplyFinal(h, delivered) ==
    /\ frame[h].pc = "reply_final"
    /\ SendReply(h, delivered)

\* lines 266, 284, 353: return 'OK'
Return(h) ==
    /\ frame[h].pc = "done"
    /\ frame' = [frame EXCEPT ![h] = IdleFrame]
    /\ trace' = [trace EXCEPT ![h] = IdleTrace]
    /\ UNCHANGED <<user_sessions, today, fulfilled, successes, quota_reset_day,
                   received>>

\* lines 184-199: handler.handle(body, signature) has run handle_message on
\* the thread of the request; when it returns, callback returns 'OK'
Acknowledge(h) == Return(h)

\* the reply call of a handler, on whichever flow it is
Reply(h) ==
    \/ \E d \in BOOLEAN : ReplyInitial(h, d)
    \/ \E d \in BOOLEAN : ReplyLimit(h, d)
    \/ \E d \in BOOLEAN : ReplyFinal(h, d)

\* every step of a handler in flight that comes before its reply call
Step(h) ==
    \/ CheckSession(h)
    \/ InitSession(h)
    \/ \E r \in ProfileResults : GetProfile(h, r)
    \/ CheckQuota(h)
    \/ ComputeStartIndex(h)
    \/ BuildContext(h)
    \/ \E r \in GeminiResults : GeminiReturn(h, r)
    \/ AppendUser(h)
    \/ AppendModel(h)
    \/ LoadCount(h)
    \/ StoreCount(h)
    \/ SetDate(h)

\* a message arrives while others may be in flight
Arrive(h, u, t) == FreeSlot(h) /\ Receive(h, u, t)

\* a message arrives when no handler is in flight
ArriveAlone(h, u, t) == AllIdle /\ Receive(h, u, t)

Next ==
    \/ AdvanceDay
    \/ \E h \in Handlers, u \in Senders, t \in Texts : Arrive(h, u, t)
    \/ \E h \in Handlers : Step(h)
    \/ \E h \in Handlers : Reply(h)
    \/ \E h \in Handlers : Acknowledge(h)

Spec == Init /\ [][Next]_vars

\* messages handled one after another: a message is received only when no
\* handler is in flight
NextSeq ==
    \/ AdvanceDay
    \/ \E h \in Handlers, u \in Senders, t \in Texts : ArriveAlone(h, u, t)
    \/ \E h \in Handlers : Step(h)
    \/ \E h \in Handlers : Reply(h)
    \/ \E h \in Handlers : Acknowledge(h)

SpecSeq == InitSeq /\ [][NextSeq]_vars

\* the user whose messages handler h takes in SpecTwo
SlotUser(h) == IF h = 1 THEN "U1" ELSE "U2"

\* a message of the user of slot h arrives while the other user's may be in
\* flight
ArriveOwn(h, t) == Receive(h, SlotUser(h), t)

\* messages of both users: those of one user are handled one after another,
\* those of different users in any interleaving
NextTwo ==
    \/ AdvanceDay
    \/ \E h \in Handlers, t \in Texts : ArriveOwn(h, t)
    \/ \E h \in Handlers : Step(h)
    \/ \E h \in Handlers : Reply(h)
    \/ \E h \in Handlers : Acknowledge(h)

SpecTwo == InitTwo /\ [][NextTwo]_vars

\* the steps of handler h that need nothing but its thread being scheduled,
\* and its calls to the LINE API; the backend call (lines 310-311) is not
\* among them: it is made without a timeout
Progress(h) ==
    \/ CheckSession(h)
    \/ InitSession(h)
    \/ \E r \in ProfileResults : GetProfile(h, r)
    \/ CheckQuota(h)
    \/ ComputeStartIndex(h)
    \/ BuildContext(h)
    \/ AppendUser(h)
    \/ AppendModel(h)
    \/ LoadCount(h)
    \/ StoreCount(h)
    \/ SetDate(h)
    \/ Reply(h)
    \/ Acknowledge(h)

\* Spec with every handler in flight scheduled again and again
SpecLive == Init /\ [][Next]_vars /\ \A h \in Handlers : WF_vars(Progress(h))

\* ------------------------------------------------------------ vocabulary
\* handler h took this step
Stepped(h) == frame'[h] # frame[h]

\* positions between the backend's answer and the end of lines 327-332
PersistPcs == {"append_user", "append_model", "load_count", "store_count", "set_date"}

\* history and counter of user u are the same before and after the step
SameRecord(u) ==
    /\ u \in DOMAIN user_sessions
    /\ u \in DOMAIN user_sessions'
    /\ user_sessions'[u].history = user_sessions[u].history
    /\ user_sessions'[u].request_count = user_sessions[u].request_count

\* every reply handler h has attempted so far carried text t
RepliedOnly(h, t) ==
    \A i \in DOMAIN trace[h].replies : trace[h].replies[i].text = t

\* ------------------------------------------------------------------ C1
\* C1: a message that finds no session for its user, or a session whose
\* last_request_date is not the date the handler read, takes the reset flow
\* whatever its text: the session is set to request_count 0 and an empty
\* history, no later step of that handler touches history or counter, the
\* backend is never called for it, and its only reply is the onboarding text.
C1_FreshMessageOnboards ==
    [][\A h \in Handlers :
         LET f == frame[h]
             u == f.user_id
         IN
         /\ ( /\ f.pc = "check"
              /\ Stepped(h)
              /\ \/ u \notin DOMAIN user_sessions
                 \/ user_sessions[u].last_request_date # f.current_date )
            => frame'[h].pc = "init"
         /\ (f.pc = "init" /\ Stepped(h))
            => /\ user_sessions'[u].request_count = 0
               /\ user_sessions'[u].history = <<>>
               /\ frame'[h].pc = "profile"
         /\ (f.pc \in {"profile", "reply_initial"} /\ Stepped(h))
            => /\ SameRecord(u)
               /\ frame'[h].pc \in {"reply_initial", "done"}
               /\ trace'[h].backend = "none"
         /\ (f.pc = "done" /\ trace[h].path = "fresh")
            => /\ trace[h].backend = "none"
               /\ Len(trace[h].replies) = 1
               /\ RepliedOnly(h, PersonalizedInitialMessage(user_sessions[u].display_name))
      ]_vars

C1_Witness ==
    \E h \in Handlers :
      /\ frame[h].pc = "done"
      /\ trace[h].path = "fresh"
      /\ Len(trace[h].replies) = 1
      /\ user_sessions[frame[h].user_id].request_count = 0
      /\ user_sessions[frame[h].user_id].history = <<>>

\* ------------------------------------------------------------------ C2
\* C2: for every user and day, at most MAX_GEMINI_REQUESTS_PER_DAY backend
\* calls are fulfilled, also when several messages of the user are in flight.
C2_DailyQuotaHolds ==
    \A u \in Users, d \in Days : fulfilled[u][d] <= MAX_GEMINI_REQUESTS_PER_DAY

\* ------------------------------------------------------------------ C3
\* C3: a message that finds today's session with request_count at or above
\* MAX_GEMINI_REQUESTS_PER_DAY is answered with GEMINI_LIMIT_MESSAGE only, the
\* backend is not called, and no step of its handler changes the session table.
C3_LimitLeavesSession ==
    [][\A h \in Handlers :
         LET f == frame[h]
             u == f.user_id
         IN
         /\ ( /\ f.pc = "quota"
              /\ Stepped(h)
              /\ user_sessions[u].request_count >= MAX_GEMINI_REQUESTS_PER_DAY )
            => /\ frame'[h].pc = "reply_limit"
               /\ frame'[h].response_text = GEMINI_LIMIT_MESSAGE
               /\ user_sessions' = user_sessions
         /\ (f.pc = "reply_limit" /\ Stepped(h))
            => /\ user_sessions' = user_sessions
               /\ frame'[h].pc = "done"
               /\ trace'[h].backend = "none"
         /\ (f.pc = "done" /\ trace[h].path = "limited")
            => /\ trace[h].backend = "none"
               /\ Len(trace[h].replies) = 1
               /\ RepliedOnly(h, GEMINI_LIMIT_MESSAGE)
               /\ user_sessions' = user_sessions
      ]_vars

C3_Witness ==
    \E h \in Handlers :
      /\ frame[h].pc = "done"
      /\ trace[h].path = "limited"
      /\ Len(trace[h].replies) = 1
      /\ user_sessions[frame[h].user_id].request_count = MAX_GEMINI_REQUESTS_PER_DAY

\* ------------------------------------------------------------------ C4
\* C4: with messages handled one after another, whenever no handler of the
\* user is between the backend's answer and the end of its update,
\* request_count is the number of backend calls that succeeded (returned usable
\* text) since the session was last (re)initialized.
C4_CountIsSuccesses ==
    \A u \in DOMAIN user_sessions :
      (\A h \in Handlers : ~(frame[h].user_id = u /\ frame[h].pc \in PersistPcs))
      => user_sessions[u].request_count = successes[u]

\* ------------------------------------------------------------------ C5
\* C5: with messages handled one after another, every history has even length
\* and alternates user, model, user, model, ... whenever no handler of the
\* user stands between its two appends.
Alternates(history) ==
    /\ Len(history) % 2 = 0
    /\ \A i \in DOMAIN history :
         history[i][1] = IF i % 2 = 1 THEN "user" ELSE "model"

C6_FailureLeavesSession ==
    [][\A h \in Handlers :
         /\ (trace[h].backend = "pending" /\ trace'[h].backend = "raise")
            => /\ user_sessions' = user_sessions
               /\ frame'[h].pc = "reply_final"
               /\ frame'[h].response_text = GeminiErrorText
         /\ (trace[h].backend = "raise" /\ Stepped(h))
            => /\ user_sessions' = user_sessions
               /\ frame'[h].pc \in {"done", "idle"}
         /\ (trace[h].backend = "raise" /\ frame[h].pc = "done")
            => /\ Len(trace[h].replies) = 1
               /\ RepliedOnly(h, GeminiErrorText)
      ]_vars

C6_Witness ==
    \E h \in Handlers :
      /\ frame[h].pc = "done"
      /\ trace[h].backend = "raise"
      /\ Len(trace[h].replies) = 1
      /\ Len(user_sessions[frame[h].user_id].history) > 0

\* ------------------------------------------------------------------ C7
\* C7: a backend response without usable text (empty text, or no text at all)
\* is treated like a backend error: the handler goes straight to its reply
\* with the fixed fallback text and persists nothing.
C7_MalformedLikeError ==
    \A h \in Handlers :
      trace[h].backend \in {"empty", "no_text"}
      => /\ frame[h].pc \in {"reply_final", "done"}
         /\ frame[h].pc = "reply_final" => frame[h].response_text = GeminiErrorText
         /\ RepliedOnly(h, GeminiErrorText)

\* ------------------------------------------------------------------ C8
\* C8: with messages handled one after another, the context of a pending
\* backend call is the system-prompt turn (user), the acknowledgment turn
\* (model), then the last min(len(history), MAX_CONTEXT_TURNS * 2) history
\* entries in their order, with the new message as the text to send; the
\* preamble texts never appear in a history.
Min(a, b) == IF a <= b THEN a ELSE b

Reinitialized(u) ==
    /\ u \in DOMAIN user_sessions'
    /\ user_sessions'[u].history = <<>>
    /\ user_sessions'[u].request_count = 0
    /\ \/ u \notin DOMAIN user_sessions
       \/ user_sessions[u].history # <<>>
       \/ user_sessions[u].request_count # 0

\* C9 as amended: a handler reinitializes the session (history cleared,
\* request_count 0) if and only if its test of line 215 found no session for
\* the user or a last_request_date other than the date it read; the text of
\* the message plays no part, a reset command included.
C9_ReinitIffAbsentOrStale ==
    [][/\ \A h \in Handlers :
            LET f == frame[h]
                u == f.user_id
            IN
            /\ (f.pc = "check" /\ Stepped(h))
               => ( frame'[h].pc = "init"
                    <=> \/ u \notin DOMAIN user_sessions
                        \/ user_sessions[u].last_request_date # f.current_date )
            /\ (f.pc = "check" /\ Stepped(h) /\ frame'[h].pc # "init")
               => user_sessions' = user_sessions
            /\ (f.pc = "init" /\ Stepped(h))
               => /\ u \in DOMAIN user_sessions'
                  /\ user_sessions'[u].history = <<>>
                  /\ user_sessions'[u].request_count = 0
                  /\ user_sessions'[u].last_request_date = f.current_date
       /\ \A u \in Users :
            Reinitialized(u)
            => \E h \in Handlers :
                 frame[h].pc = "init" /\ frame[h].user_id = u /\ Stepped(h)
      ]_vars

\* C9 as claimed: the test of line 215 sends a message to the reset flow if and
\* only if there is no session, the date differs, or the message is the reset
\* command.
C9_ResetCommandReinitializes ==
    [][\A h \in Handlers :
         LET f == frame[h]
             u == f.user_id
         IN
         (f.pc = "check" /\ Stepped(h))
         => ( frame'[h].pc = "init"
              <=> \/ u \notin DOMAIN user_sessions
                  \/ user_sessions[u].last_request_date # f.current_date
                  \/ f.user_message = ResetCommand )
      ]_vars

\* the reset command was received for a session of today and the handler
\* went on to the quota test with the history as it was
C9_Witness ==
    \E h \in Handlers :
      /\ frame[h].pc = "quota"
      /\ frame[h].user_message = ResetCommand
      /\ user_sessions[frame[h].user_id].history # <<>>
      /\ user_sessions[frame[h].user_id].last_request_date = frame[h].current_date

\* ----------------------------------------------------------------- C10
\* C10: a message that finds a session at or above the daily limit but dated
\* another day takes the reset flow, not the limit flow: the session gets
\* request_count 0, the reply is the onboarding text and not the limit text,
\* and a later message of that day that finds the counter below the limit
\* goes on to the backend.
C10_FreshnessBeforeQuota ==
    [][\A h \in Handlers :
         LET f == frame[h]
             u == f.user_id
         IN
         /\ ( /\ f.pc = "check"
              /\ Stepped(h)
              /\ u \in DOMAIN user_sessions
              /\ user_sessions[u].request_count >= MAX_GEMINI_REQUESTS_PER_DAY
              /\ user_sessions[u].last_request_date # f.current_date )
            => /\ frame'[h].pc = "init"
               /\ quota_reset_day'[u] = f.current_date
         /\ (f.pc = "init" /\ Stepped(h) /\ quota_reset_day[u] = f.current_date)
            => /\ user_sessions'[u].request_count = 0
               /\ user_sessions'[u].last_request_date = f.current_date
         /\ (f.pc = "reply_initial" /\ Stepped(h))
            => /\ Len(trace'[h].replies) = 1
               /\ trace'[h].replies[1].text # GEMINI_LIMIT_MESSAGE
               /\ trace'[h].replies[1].text =
                    PersonalizedInitialMessage(user_sessions[u].display_name)
         /\ ( /\ f.pc = "quota"
              /\ Stepped(h)
              /\ quota_reset_day[u] = f.current_date
              /\ user_sessions[u].request_count < MAX_GEMINI_REQUESTS_PER_DAY )
            => frame'[h].pc = "start_index"
      ]_vars

C10_Witness ==
    \E h \in Handlers :
      /\ frame[h].pc = "gemini"
      /\ quota_reset_day[frame[h].user_id] = frame[h].current_date
      /\ frame[h].current_date = today
      /\ user_sessions[frame[h].user_id].last_request_date = today

\* ----------------------------------------------------------------- C11
\* C11: the webhook's acknowledgment does not wait for the two blocking calls
\* of its event: while the backend call is pending, and while the handler
\* stands at its reply call, callback can return 'OK'.
C11_AckWithoutWaiting ==
    \A h \in Handlers :
      (trace[h].backend = "pending" \/ frame[h].pc \in ReplyPcs)
      => ENABLED Acknowledge(h)

\* ----------------------------------------------------------------- C12
\* no handler of user u stands between the backend's answer and the end of
\* its update of lines 327-332
NotPersisting(u) ==
    \A h \in Handlers : ~(frame[h].user_id = u /\ frame[h].pc \in PersistPcs)

\* no two consecutive turns of the same role
Paired(history) ==
    \A i \in 1..(Len(history) - 1) : history[i][1] # history[i + 1][1]

\* C12, the counter: with any number of messages of one user in flight, no
\* increment is lost; once the updates are over, request_count is at least the
\* number of backend calls that succeeded since the session was initialized.
C12_NoLostIncrement ==
    \A u \in DOMAIN user_sessions :
      NotPersisting(u) => user_sessions[u].request_count >= successes[u]

\* C12, the history: once the updates are over, the appends of different
\* messages have not interleaved into two consecutive turns of the same role.
C12_NoUnpairedHistory ==
    \A u \in DOMAIN user_sessions :
      NotPersisting(u) => Paired(user_sessions[u].history)

\* C12: the session updates of concurrent messages of one user are
\* linearizable, for the counter and for the history.
C12_Linearizable ==
    C12_NoLostIncrement /\ C12_NoUnpairedHistory

\* ----------------------------------------------------------------- C13
\* C13: every inbound message eventually reaches its reply: the backend call
\* is never left pending for ever, a backend that does not answer ends in the
\* fallback reply.
C13_EveryMessageReplied ==
    \A h \in Handlers :
      (frame[h].pc = "check") ~> (frame[h].pc = "done" /\ Len(trace[h].replies) = 1)

\* ----------------------------------------------------------------- C14
\* the user whose message handler h is handling in this step
UserOf(h) ==
    IF frame[h].pc = "idle" THEN frame'[h].user_id ELSE frame[h].user_id

\* C14: no step of a handler, on any path and in any interleaving with the
\* handlers of other users, changes the session of a user other than the one
\* whose message it handles: that user's history, request_count and
\* last_request_date stay as they are, and a user without a session stays so.
C14_OtherUsersUntouched ==
    [][\A h \in Handlers :
         Stepped(h)
         => \A v \in Users \ {UserOf(h)} :
              /\ v \in DOMAIN user_sessions <=> v \in DOMAIN user_sessions'
              /\ v \in DOMAIN user_sessions
                 => user_sessions'[v] = user_sessions[v]
      ]_vars

\* a message of U1 was answered by the backend and stored while a message of
\* U2 stands between its two appends
C14_Witness ==
    \E h, g \in Handlers :
      /\ frame[h].user_id = "U1"
      /\ frame[h].pc = "done"
      /\ trace[h].backend = "ok"
      /\ frame[g].user_id = "U2"
      /\ frame[g].pc = "append_model"
      /\ Len(user_sessions["U2"].history) > 2

\* ----------------------------------------------------------------- C15
\* C15: on every path a handler makes exactly one call of reply_message: none
\* before it reaches its reply call, one when it leaves it, whether the
\* delivery succeeded or raised; after the call it only returns, and it
\* returns from nowhere else.
C15_OneReplyAttempt ==
    [][\A h \in Handlers :
         /\ frame[h].pc \notin {"idle", "done"} => trace[h].replies = <<>>
         /\ (frame[h].pc \in ReplyPcs /\ Stepped(h))
            => /\ Len(trace'[h].replies) = 1
               /\ trace'[h].replies[1].text = frame[h].response_text
               /\ frame'[h].pc = "done"
               /\ user_sessions' = user_sessions
         /\ frame[h].pc = "done"
            => /\ Len(trace[h].replies) = 1
               /\ trace[h].path \in {"fresh", "limited", "proceed"}
               /\ Stepped(h) => frame'[h].pc = "idle"
         /\ (frame[h].pc # "idle" /\ frame'[h].pc = "idle") => frame[h].pc = "done"
      ]_vars

\* the delivery of the reply failed after a backend call that raised, and the
\* handler stands at its return
C15_Witness ==
    \E h \in Handlers :
      /\ frame[h].pc = "done"
      /\ trace[h].backend = "raise"
      /\ Len(trace[h].replies) = 1
      /\ ~trace[h].replies[1].delivered

\* ----------------------------------------------------------------- C16
\* C16, first half: a handler on the proceed path writes nothing from the
\* quota test until its backend call has returned; what it writes then is the
\* user turn, the model turn and the counter, in that order.
C16_NothingBeforeAnswerThenInOrder ==
    [][\A h \in Handlers :
         LET f == frame[h]
             u == f.user_id
         IN
         /\ (f.pc \in {"quota", "start_index", "build", "gemini"} /\ Stepped(h))
            => user_sessions' = user_sessions
         /\ f.pc \in PersistPcs => trace[h].backend \notin {"none", "pending"}
         /\ (f.pc = "append_user" /\ Stepped(h))
            => /\ user_sessions'[u].history =
                    Append(user_sessions[u].history, <<"user", f.user_message>>)
               /\ user_sessions'[u].request_count = user_sessions[u].request_count
               /\ frame'[h].pc = "append_model"
         /\ (f.pc = "append_model" /\ Stepped(h))
            => /\ user_sessions'[u].history =
                    Append(user_sessions[u].history, <<"model", f.response_text>>)
               /\ user_sessions'[u].request_count = user_sessions[u].request_count
               /\ frame'[h].pc = "load_count"
         /\ (f.pc = "load_count" /\ Stepped(h))
            => /\ user_sessions' = user_sessions
               /\ frame'[h].pc = "store_count"
         /\ (f.pc = "store_count" /\ Stepped(h))
            => /\ user_sessions'[u].history = user_sessions[u].history
               /\ user_sessions'[u].request_count = f.loaded_count + 1
      ]_vars

\* C16, second half: the result the writes follow is a successful one; a
\* handler stands in lines 327-332 only after a response with usable text.
C16_OnlyAfterSuccess ==
    \A h \in Handlers : frame[h].pc \in PersistPcs => trace[h].backend = "ok"

\* C16: session state is never written speculatively: nothing is written
\* before the backend has returned a successful result, and only then are the
\* user turn, the model turn and the counter increment applied, in that order.
C16_NoSpeculativeWrite ==
    C16_NothingBeforeAnswerThenInOrder /\ []C16_OnlyAfterSuccess

\* ----------------------------------------------------------------- C17
\* the profile lookup of handler h raised or returned no display name
LookupFailed(h) == trace[h].profile \in {"no_name", "raise"}

\* C17: the (re)initialization writes a session with an empty history,
\* request_count 0, the date the handler read and the default display name
\* before the profile is looked up; a lookup that raises or returns no name
\* leaves that session as it is, and the handler goes on to send the
\* onboarding text with the name the session holds, as its only reply.
C17_DisplayNameBestEffort ==
    [][\A h \in Handlers :
         LET f == frame[h]
             u == f.user_id
         IN
         /\ (f.pc = "init" /\ Stepped(h))
            => /\ user_sessions'[u].history = <<>>
               /\ user_sessions'[u].request_count = 0
               /\ user_sessions'[u].last_request_date = f.current_date
               /\ user_sessions'[u].display_name = DefaultDisplayName
               /\ frame'[h].pc = "profile"
         /\ (f.pc = "profile" /\ Stepped(h) /\ LookupFailed(h)')
            => /\ user_sessions' = user_sessions
               /\ frame'[h].pc = "reply_initial"
               /\ frame'[h].response_text =
                    PersonalizedInitialMessage(user_sessions[u].display_name)
         /\ (f.pc = "reply_initial" /\ Stepped(h) /\ LookupFailed(h))
            => /\ user_sessions' = user_sessions
               /\ frame'[h].pc = "done"
               /\ trace'[h].replies =
                    << [text |-> PersonalizedInitialMessage(user_sessions[u].display_name),
                        delivered |-> trace'[h].replies[1].delivered] >>
      ]_vars

\* the lookup raised, and the handler has sent the onboarding text with the
\* default name for a session that is initialized for today
C17_Witness ==
    \E h \in Handlers :
      /\ frame[h].pc = "done"
      /\ trace[h].profile = "raise"
      /\ trace[h].replies =
           << [text |-> PersonalizedInitialMessage(DefaultDisplayName), delivered |-> TRUE] >>
      /\ user_sessions[frame[h].user_id] =
           [history |-> <<>>, request_count |-> 0, last_request_date |-> today,
            display_name |-> DefaultDisplayName]

\* ----------------------------------------------------------------- C18
\* C18: whenever no handler of the user is in the middle of lines 327-332, the
\* history holds exactly two turns for each counted request.
C18_HistoryTwicePerCount ==
    \A u \in DOMAIN user_sessions :
      NotPersisting(u)
      => Len(user_sessions[u].history) = 2 * user_sessions[u].request_count

\* ----------------------------------------------------------------- C19
\* C19, the date: no step moves a session's last_request_date backward.
C19_DateNeverBackward ==
    [][\A u \in DOMAIN user_sessions :
         user_sessions'[u].last_request_date >= user_sessions[u].last_request_date
      ]_vars

\* C19, the turns: a handler appends a turn only to a session whose
\* last_request_date is not later than the date the handler read.
C19_NoTurnFromEarlierDay ==
    [][\A h \in Handlers :
         (frame[h].pc \in {"append_user", "append_model"} /\ Stepped(h))
         => user_sessions[frame[h].user_id].last_request_date <= frame[h].current_date
      ]_vars

\* C19: a handler that read the date before midnight and finishes after the
\* session was reset for the new day neither appends to the new session nor
\* sets its last_request_date back.
C19_StaleHandlerHarmless ==
    C19_DateNeverBackward /\ C19_NoTurnFromEarlierDay

====
